---- MODULE Spec2Model ----
(***************************************************************************)
(* Model of cmd/backup-manager/app/clean/manager.go: one cleanup           *)
(* invocation (Manager.ProcessCleanBackup) over a namespace's backup       *)
(* catalog, with the external collaborators (lister, deletion primitives,  *)
(* size calculator, status updater) as nondeterministic calls.             *)
(***************************************************************************)
EXTENDS Integers, Sequences, FiniteSets, TLC

VARIABLES
    catalog,      \* the lister's records of the namespace: name -> [mode, ts]
    BackupName,   \* bm.BackupName, the record the invocation is asked to clean
    status,       \* the status store: name -> [size, readable, conds]
    pc,           \* position of the invocation
    backup,       \* the deep copy of the target (ProcessCleanBackup line 61)
    bks,          \* what List returned to getNextBackup (line 129), before sorting
    nextNackup,   \* performCleanBackup's local (line 81): a name or NIL
    err,          \* performCleanBackup's local err (line 76): a message or NIL
    result,       \* the error returned to the caller: an aggregate (sequence), NIL once done
    calls,        \* the external calls of the running invocation, in order
    stored,       \* the target's Spec.BR and Status.BackupPath in the lister
    artifact,     \* the target's artifact in the store: "present" or "removed"
    runs          \* the invocations started so far

vars == <<catalog, BackupName, status, pc, backup, bks, nextNackup, err, result,
          calls, stored, artifact, runs>>

----------------------------------------------------------------------------
(* Bounds of the model *)

MaxTime == 3
MaxSize == 3
SizeStep == 512
InitSize == 7
MaxRuns == 2

(* The records of the namespace: three, as in the spec's examples. *)
Names == {"A", "B", "C"}
(* A name Get does not find in the lister. *)
Unknown == "Z"

Modes == {"Normal", "VolumeSnapshot"}
Times == 1..MaxTime
Sizes == {k * SizeStep : k \in 0..MaxSize}
Paths == {"", "s3://bucket/bk"}
DelErrors == {"access denied", "not found"}
UpdateError == "update failed"
NotFound == "backup not found"
LookupError == "can't find backup CRD object, err: backup not found"
ListError == "list failed"
CalcError == "calc failed"

NIL == "nil"
NoBackup == [name |-> NIL, mode |-> "", br |-> FALSE, path |-> ""]
NoReadable == [whole |-> -1, tenth |-> -1, unit |-> ""]

----------------------------------------------------------------------------
(* Pure helpers *)

(* k8s.io/apimachinery errors.NewAggregate: nil entries are dropped, and an
   empty list is a nil Aggregate. An aggregate is the sequence of its errors. *)
NewAggregate(errlist) ==
    LET errs == SelectSeq(errlist, LAMBDA e : e # NIL)
    IN  IF Len(errs) = 0 THEN <<>> ELSE errs

(* The messages an aggregate's Error() text is built from. *)
Messages(agg) == {agg[i] : i \in 1..Len(agg)}

(* A nil error is the empty aggregate. *)
IsNil(agg) == agg = <<>>

(* A plain (non-aggregate) error value returned as is. *)
AsResult(e) == IF e = NIL THEN <<>> ELSE <<e>>

RECURSIVE Pow1000(_)
Pow1000(e) == IF e = 0 THEN 1 ELSE 1000 * Pow1000(e - 1)

RECURSIVE Log1000(_)
Log1000(s) == IF s < 1000 THEN 0 ELSE 1 + Log1000(s \div 1000)

UnitOf(e) == CASE e = 0 -> "B" [] e = 1 -> "kB" [] e = 2 -> "MB" [] OTHER -> "GB"

(* "%.0f" of t/10: round to the nearest integer, halves to even. *)
RoundTenths(t) ==
    LET w == t \div 10
        r == t % 10
    IN  IF r > 5 \/ (r = 5 /\ w % 2 = 1) THEN w + 1 ELSE w

(* humanize.Bytes(uint64(backupSize)), for 0 <= s: "%d B" below 10, else the
   value in the largest unit of base 1000, rounded to one decimal, printed
   with one decimal below 10 and with none from 10 on. *)
HumanizeBytes(s) ==
    IF s < 10 THEN [whole |-> s, tenth |-> -1, unit |-> "B"]
    ELSE LET e == Log1000(s)
             t == (20 * s + Pow1000(e)) \div (2 * Pow1000(e))
         IN  IF t < 100
             THEN [whole |-> t \div 10, tenth |-> t % 10, unit |-> UnitOf(e)]
             ELSE [whole |-> RoundTenths(t), tenth |-> -1, unit |-> UnitOf(e)]

----------------------------------------------------------------------------
(* The chain navigator: getNextBackup and getVolumeSnapshotBackup *)

(* Variant: the comparison turned around, which sorts latest first. *)
BeforeReversed(cat, a, b) == cat[a].ts > cat[b].ts

(* Status.TimeStarted.Before of two listed records (the less of line 136). *)
Before(cat, a, b) == cat[a].ts < cat[b].ts

(* The sequences without repetition over a finite set. *)
Perms(S) ==
    {s \in [1..Cardinality(S) -> S] : \A i, j \in DOMAIN s : i # j => s[i] # s[j]}

(* Variant: the listing left in the order the lister returned it. *)
SortSliceUnsorted(cat, l) == {l}

(* What sort.Slice may leave in bks (lines 135-137): a rearrangement of the
   listing in which no element is Before an earlier one. sort.Slice is not
   stable, so records with equal TimeStarted may end in either order. *)
SortSlice(cat, l) ==
    {s \in {[i \in DOMAIN l |-> l[p[i]]] : p \in Perms(DOMAIN l)} :
        \A i, j \in DOMAIN s : i < j => ~Before(cat, s[j], s[i])}

(* Variant: the first record of the list, whatever its mode. *)
getVolumeSnapshotBackupAnyMode(cat, backups) ==
    IF Len(backups) = 0 THEN NIL ELSE backups[1]

(* getVolumeSnapshotBackup (lines 149-158): the first volume-snapshot record
   of the list, or nil. *)
getVolumeSnapshotBackup(cat, backups) ==
    LET vs == {i \in DOMAIN backups : cat[backups[i]].mode = "VolumeSnapshot"}
    IN  IF vs = {} THEN NIL
        ELSE backups[CHOOSE i \in vs : \A j \in vs : i <= j]

(* Variant: the scan runs over every record but the target, also the
   earlier ones. *)
ScanWholeList(cat, sorted, name) ==
    LET at == {i \in DOMAIN sorted : sorted[i] = name}
    IN  IF at = {} THEN NIL
        ELSE getVolumeSnapshotBackup(cat,
                 SelectSeq(sorted, LAMBDA n : n # name))

(* Variant: the scan starts at the target (bks[i:]) instead of behind it. *)
ScanFromTarget(cat, sorted, name) ==
    LET at == {i \in DOMAIN sorted : sorted[i] = name}
    IN  IF at = {} THEN NIL
        ELSE LET i == CHOOSE k \in at : \A j \in at : k <= j
             IN  getVolumeSnapshotBackup(cat, SubSeq(sorted, i, Len(sorted)))

(* The loop of lines 139-145 over the sorted list: at the first record with
   the target's name, the scan of what follows it; nil when no record has it. *)
ScanFrom(cat, sorted, name) ==
    LET at == {i \in DOMAIN sorted : sorted[i] = name}
    IN  IF at = {} THEN NIL
        ELSE LET i == CHOOSE k \in at : \A j \in at : k <= j
             IN  getVolumeSnapshotBackup(cat, SubSeq(sorted, i + 1, Len(sorted)))

(* What the lister may return for the namespace (line 129): its records in
   any order; the target may be gone from the cache since it was fetched. *)
Listings(name) == Perms(Names) \cup Perms(Names \ {name})

----------------------------------------------------------------------------
(* Conditions, status updates and the calls log *)

NoCondition == [type |-> "", reason |-> "", message |-> ""]
NoUpdate == [size |-> -1, readable |-> NoReadable]

PathEmptyMessage == "the cluster backup path is empty"

(* The condition of lines 67-72. *)
PathEmptyCondition ==
    [type |-> "Failed", reason |-> "BackupPathIsEmpty", message |-> PathEmptyMessage]

(* Variant: the Failed condition is written without the error's message. *)
FailedConditionNoMessage(e) ==
    [type |-> "Failed", reason |-> "CleanBackupDataFailed", message |-> ""]

(* The condition of lines 109-114. *)
FailedCondition(e) ==
    [type |-> "Failed", reason |-> "CleanBackupDataFailed", message |-> e]

(* The condition of lines 120-123. *)
CleanCondition == [type |-> "Clean", reason |-> "", message |-> ""]

(* The condition of lines 177-180. *)
CompleteCondition == [type |-> "Complete", reason |-> "", message |-> ""]

(* The BackupUpdateStatus of lines 170-175. *)
SizeUpdate(backupSize) ==
    [size |-> backupSize, readable |-> HumanizeBytes(backupSize)]

(* One external call: the operation, the record (or path) it is made on,
   what it carries and the error it returned (NIL for none). A List call
   carries the number of records it returned, a size calculation the size. *)
Call(op, name, e) ==
    [op |-> op, name |-> name, cond |-> NoCondition, upd |-> NoUpdate,
     size |-> -1, err |-> e]
UpdateCall(name, cond, upd, e) ==
    [op |-> "Update", name |-> name, cond |-> cond, upd |-> upd,
     size |-> -1, err |-> e]
ListCall(n, e) ==
    [op |-> "List", name |-> "", cond |-> NoCondition, upd |-> NoUpdate,
     size |-> n, err |-> e]
CalcCall(size, e) ==
    [op |-> "CalcVolSnapBackupSize", name |-> "", cond |-> NoCondition,
     upd |-> NoUpdate, size |-> size, err |-> e]

(* StatusUpdater.Update: a successful write appends the condition to the
   record's conditions and, given a size update, sets its size fields; a
   failed write changes nothing. *)
StatusAfterUpdate(st, name, cond, upd, ok) ==
    IF ~ok THEN st
    ELSE [st EXCEPT ![name] =
            [size     |-> IF upd = NoUpdate THEN @.size ELSE upd.size,
             readable |-> IF upd = NoUpdate THEN @.readable ELSE upd.readable,
             conds    |-> Append(@.conds, cond)]]

(* The error Update returns. *)
UpdateResult(ok) == IF ok THEN NIL ELSE UpdateError

(* What a deletion primitive may return: nil or an error while the artifact
   is there, and artifact-not-found once it has been removed. *)
DeletionOutcomes(art) ==
    IF art = "removed" THEN {"not found"} ELSE DelErrors \cup {NIL}

(* The artifact after a deletion primitive returned e. *)
ArtifactAfter(art, e) == IF e = NIL THEN "removed" ELSE art

----------------------------------------------------------------------------
(* Decisions of performCleanBackup *)

(* Variant: the path is not checked before the dispatch. *)
PathIsEmptyNever(b) == FALSE

(* The check of line 65. *)
PathIsEmpty(b) == b.path = ""

(* Variant: every target is taken down the volume-snapshot path. *)
IsVolumeSnapshotAlways(b) == TRUE

(* The branch of line 80. *)
IsVolumeSnapshot(b) == b.mode = "VolumeSnapshot"

(* Variant: the test of Spec.BR inverted. *)
RemotePrimitiveSwapped(b) ==
    IF b.br THEN "cleanRemoteBackupData" ELSE "CleanBRRemoteBackupData"

(* The branch of lines 98-103: the primitive a non-volume-snapshot target is
   cleaned with. *)
RemotePrimitive(b) ==
    IF b.br THEN "CleanBRRemoteBackupData" ELSE "cleanRemoteBackupData"

(* What the primitive is called on: CleanBRRemoteBackupData takes the backup
   (line 99), cleanRemoteBackupData the stored artifact path (line 102). *)
RemoteArgument(b) == IF b.br THEN b.name ELSE b.path

(* Variant: the successor update's error is assigned to err. *)
ErrAfterSuccessorUpdateMerged(e, serr) == IF e = NIL THEN serr ELSE e

(* Line 94: the error updateVolumeSnapshotBackupSize returns is dropped, and
   err stays what the deletion left in it. *)
ErrAfterSuccessorUpdate(e, serr) == e

(* Variant: updateVolumeSnapshotBackupSize returns the calculator's error
   without writing. *)
WritesAfterCalcOnlyOnSuccess(cerr) == cerr = NIL

(* Lines 166-168: the calculator's error is only logged, and the status write
   of lines 170-180 follows in either case. *)
WritesAfterCalc(cerr) == TRUE

(* Variant: the successor is updated only after a successful deletion. *)
UpdatesSuccessorOnlyOnSuccess(next, e) == next # NIL /\ e = NIL

(* Line 93: whether the successor's size is updated. *)
UpdatesSuccessor(next, e) == next # NIL

(* Variant: an artifact that is already gone counts as cleaned. *)
CleanupFailedUnlessNotFound(e) == e \notin {NIL, "not found"}

(* The test of line 106. *)
CleanupFailed(e) == e # NIL

(* Variants: only the write's result, or only the deletion error, is
   returned. *)
FailureResultWriteOnly(e, uerr) == AsResult(uerr)
FailureResultCleanupOnly(e, uerr) == AsResult(e)

(* Lines 107-116: the value returned after a failed deletion. *)
FailureResult(e, uerr) == NewAggregate(<<e, uerr>>)

(* Variant: the result of the Clean write is dropped and nil returned. *)
SuccessResultIgnored(uerr) == <<>>

(* Lines 120-123: the value returned after a successful deletion. *)
SuccessResult(uerr) == AsResult(uerr)

(* Variant: the lister's error is logged and nil returned. *)
LookupFailureSwallowed(e) == <<>>

(* Lines 57-59: the value returned when Get fails, the lister's error
   wrapped in a new error. *)
LookupFailure(e) == <<LookupError>>

----------------------------------------------------------------------------
(* The invocation *)

Init ==
    /\ catalog \in [Names -> [mode : Modes, ts : Times]]
    /\ BackupName \in Names \cup {Unknown}
    /\ status = [n \in Names |->
                    [size |-> InitSize, readable |-> HumanizeBytes(InitSize),
                     conds |-> <<>>]]
    /\ pc = "start"
    /\ backup = NoBackup
    /\ bks = <<>>
    /\ nextNackup = NIL
    /\ err = NIL
    /\ result = <<>>
    /\ calls = <<>>
    /\ stored \in [br : BOOLEAN, path : Paths]
    /\ artifact = "present"
    /\ runs = 1

(* ProcessCleanBackup, lines 56-59: the target is not in the lister. *)
GetFails ==
    /\ pc = "start"
    /\ BackupName \notin Names
    /\ calls' = Append(calls, Call("Get", BackupName, NotFound))
    /\ result' = LookupFailure(NotFound)
    /\ pc' = "done"
    /\ UNCHANGED <<catalog, BackupName, status, backup, bks, nextNackup, err, stored,
                   artifact, runs>>

(* ProcessCleanBackup, lines 56-61: the target is fetched and deep-copied. *)
GetBackup ==
    /\ pc = "start"
    /\ BackupName \in Names
    /\ backup' = [name |-> BackupName, mode |-> catalog[BackupName].mode,
                  br |-> stored.br, path |-> stored.path]
    /\ calls' = Append(calls, Call("Get", BackupName, NIL))
    /\ pc' = "pathCheck"
    /\ UNCHANGED <<catalog, BackupName, status, bks, nextNackup, err, result, stored,
                   artifact, runs>>

(* performCleanBackup, lines 65-73: an empty artifact path ends the
   invocation with one Failed/BackupPathIsEmpty write, whose result is
   returned. *)
EmptyPath ==
    /\ pc = "pathCheck"
    /\ PathIsEmpty(backup)
    /\ \E ok \in BOOLEAN :
          /\ status' = StatusAfterUpdate(status, backup.name, PathEmptyCondition,
                                         NoUpdate, ok)
          /\ calls' = Append(calls,
                         UpdateCall(backup.name, PathEmptyCondition, NoUpdate, UpdateResult(ok)))
          /\ result' = AsResult(UpdateResult(ok))
    /\ pc' = "done"
    /\ UNCHANGED <<catalog, BackupName, backup, bks, nextNackup, err, stored,
                   artifact, runs>>

(* performCleanBackup, lines 75-80 and 97: the branch on the mode. *)
ModeBranch ==
    /\ pc = "pathCheck"
    /\ ~PathIsEmpty(backup)
    /\ pc' = IF IsVolumeSnapshot(backup) THEN "getNextBackup" ELSE "cleanRemote"
    /\ UNCHANGED <<catalog, BackupName, status, backup, bks, nextNackup, err,
                   result, calls, stored,
                   artifact, runs>>

(* Variant: a failed listing is taken for a failed cleanup and the deletion
   is skipped. *)
ListFailsAborts ==
    /\ pc = "getNextBackup"
    /\ calls' = Append(calls, ListCall(0, ListError))
    /\ bks' = <<>>
    /\ nextNackup' = NIL
    /\ err' = ListError
    /\ pc' = "report"
    /\ UNCHANGED <<catalog, BackupName, status, backup, result, stored,
                   artifact, runs>>

(* getNextBackup, lines 129-132: the listing fails and there is no next
   backup (line 81). *)
ListFails ==
    /\ pc = "getNextBackup"
    /\ calls' = Append(calls, ListCall(0, ListError))
    /\ bks' = <<>>
    /\ nextNackup' = NIL
    /\ pc' = "cleanVolSnapshots"
    /\ UNCHANGED <<catalog, BackupName, status, backup, err, result, stored,
                   artifact, runs>>

(* getNextBackup, lines 129-146: the listing is sorted by TimeStarted and
   scanned from the target on (line 81). *)
GetNextBackup ==
    /\ pc = "getNextBackup"
    /\ \E l \in Listings(backup.name) :
          /\ bks' = l
          /\ \E sorted \in SortSlice(catalog, l) :
                nextNackup' = ScanFrom(catalog, sorted, backup.name)
          /\ calls' = Append(calls, ListCall(Len(l), NIL))
    /\ pc' = "cleanVolSnapshots"
    /\ UNCHANGED <<catalog, BackupName, status, backup, err, result, stored,
                   artifact, runs>>

(* Variant: the successor's size is calculated and written before the
   snapshots are deleted. *)
CleanVolSnapshotsAfterUpdate ==
    /\ pc = "cleanVolSnapshots"
    /\ \E e \in DeletionOutcomes(artifact), backupSize \in Sizes, ok \in BOOLEAN :
          /\ err' = e
          /\ artifact' = ArtifactAfter(artifact, e)
          /\ status' = IF nextNackup = NIL THEN status
                        ELSE StatusAfterUpdate(status, nextNackup, CompleteCondition,
                                               SizeUpdate(backupSize), ok)
          /\ calls' = calls
                \o (IF nextNackup = NIL THEN <<>>
                    ELSE <<CalcCall(backupSize, NIL),
                           UpdateCall(nextNackup, CompleteCondition,
                                      SizeUpdate(backupSize), UpdateResult(ok))>>)
                \o <<Call("cleanBackupMetaWithVolSnapshots", backup.name, e)>>
    /\ pc' = "report"
    /\ bks' = <<>>
    /\ UNCHANGED <<catalog, BackupName, backup, nextNackup, result, stored, runs>>

(* performCleanBackup, lines 87-90: the volume-snapshot deletion primitive;
   bks, local to getNextBackup, is gone. *)
CleanVolSnapshots ==
    /\ pc = "cleanVolSnapshots"
    /\ \E e \in DeletionOutcomes(artifact) :
          /\ err' = e
          /\ artifact' = ArtifactAfter(artifact, e)
          /\ calls' = Append(calls,
                         Call("cleanBackupMetaWithVolSnapshots", backup.name, e))
          /\ pc' = IF UpdatesSuccessor(nextNackup, e) THEN "updateNext" ELSE "report"
    /\ bks' = <<>>
    /\ UNCHANGED <<catalog, BackupName, status, backup, nextNackup, result, stored, runs>>

(* performCleanBackup, lines 93-95, and updateVolumeSnapshotBackupSize, lines
   161-181: the size calculator is asked, its error only logged, and the
   successor gets a Complete condition with the size fields. *)
UpdateNextBackupSize ==
    /\ pc = "updateNext"
    /\ \E backupSize \in Sizes, cerr \in {NIL, CalcError}, ok \in BOOLEAN :
          IF WritesAfterCalc(cerr)
          THEN /\ status' = StatusAfterUpdate(status, nextNackup, CompleteCondition,
                                              SizeUpdate(backupSize), ok)
               /\ calls' = calls \o
                     <<CalcCall(backupSize, cerr),
                       UpdateCall(nextNackup, CompleteCondition,
                                  SizeUpdate(backupSize), UpdateResult(ok))>>
               /\ err' = ErrAfterSuccessorUpdate(err, UpdateResult(ok))
          ELSE /\ status' = status
               /\ calls' = Append(calls, CalcCall(backupSize, cerr))
               /\ err' = ErrAfterSuccessorUpdate(err, cerr)
    /\ pc' = "report"
    /\ UNCHANGED <<catalog, BackupName, backup, bks, nextNackup, result, stored,
                   artifact, runs>>

(* performCleanBackup, lines 98-103: the deletion primitive of a target that
   is not a volume-snapshot backup. *)
CleanRemote ==
    /\ pc = "cleanRemote"
    /\ \E e \in DeletionOutcomes(artifact) :
          /\ err' = e
          /\ artifact' = ArtifactAfter(artifact, e)
          /\ calls' = Append(calls,
                         Call(RemotePrimitive(backup), RemoteArgument(backup), e))
    /\ pc' = "report"
    /\ UNCHANGED <<catalog, BackupName, status, backup, bks, nextNackup, result, stored, runs>>

(* Variant: a failed deletion is tried once more before it is reported. *)
ReportFailureRetries ==
    /\ pc = "report"
    /\ CleanupFailed(err)
    /\ IF Len(SelectSeq(calls, LAMBDA c : c.err \in DelErrors)) < 2
       THEN /\ pc' = IF IsVolumeSnapshot(backup) THEN "cleanVolSnapshots"
                     ELSE "cleanRemote"
            /\ UNCHANGED <<status, calls, result>>
       ELSE \E ok \in BOOLEAN :
               /\ status' = StatusAfterUpdate(status, backup.name,
                                              FailedCondition(err), NoUpdate, ok)
               /\ calls' = Append(calls,
                              UpdateCall(backup.name, FailedCondition(err), NoUpdate,
                                         UpdateResult(ok)))
               /\ result' = FailureResult(err, UpdateResult(ok))
               /\ pc' = "done"
    /\ UNCHANGED <<catalog, BackupName, backup, bks, nextNackup, err, stored,
                   artifact, runs>>

(* performCleanBackup, lines 106-117: the deletion failed; a
   Failed/CleanBackupDataFailed condition is written and the aggregate of the
   deletion error and the write's error is returned. *)
ReportFailure ==
    /\ pc = "report"
    /\ CleanupFailed(err)
    /\ \E ok \in BOOLEAN :
          /\ status' = StatusAfterUpdate(status, backup.name, FailedCondition(err),
                                         NoUpdate, ok)
          /\ calls' = Append(calls,
                         UpdateCall(backup.name, FailedCondition(err), NoUpdate, UpdateResult(ok)))
          /\ result' = FailureResult(err, UpdateResult(ok))
    /\ pc' = "done"
    /\ UNCHANGED <<catalog, BackupName, backup, bks, nextNackup, err, stored,
                   artifact, runs>>

(* performCleanBackup, lines 119-123: the deletion succeeded; a Clean
   condition is written and the write's result returned. *)
ReportClean ==
    /\ pc = "report"
    /\ ~CleanupFailed(err)
    /\ \E ok \in BOOLEAN :
          /\ status' = StatusAfterUpdate(status, backup.name, CleanCondition,
                                         NoUpdate, ok)
          /\ calls' = Append(calls,
                         UpdateCall(backup.name, CleanCondition, NoUpdate, UpdateResult(ok)))
          /\ result' = SuccessResult(UpdateResult(ok))
    /\ pc' = "done"
    /\ UNCHANGED <<catalog, BackupName, backup, bks, nextNackup, err, stored,
                   artifact, runs>>

Next ==
    \/ GetFails
    \/ GetBackup
    \/ EmptyPath
    \/ ModeBranch
    \/ ListFails
    \/ GetNextBackup
    \/ CleanVolSnapshots
    \/ UpdateNextBackupSize
    \/ CleanRemote
    \/ ReportFailure
    \/ ReportClean

Spec == Init /\ [][Next]_vars

(* One invocation whose every step is taken once it can be: the body of
   performCleanBackup is sequential code, and each external call returns. *)
FairSpec == Spec /\ WF_vars(Next)

(* The target carries a Clean condition. *)
AlreadyClean ==
    /\ BackupName \in Names
    /\ \E i \in DOMAIN status[BackupName].conds :
          status[BackupName].conds[i] = CleanCondition

(* ProcessCleanBackup is called again (lines 52-54) on a record that is
   already Clean and whose artifact is removed: the locals of the invocation
   that returned are gone; the records, their statuses and the artifact store
   are as it left them. *)
Reinvoke ==
    /\ pc = "done"
    /\ runs < MaxRuns
    /\ AlreadyClean
    /\ artifact = "removed"
    /\ runs' = runs + 1
    /\ pc' = "start"
    /\ backup' = NoBackup
    /\ bks' = <<>>
    /\ nextNackup' = NIL
    /\ err' = NIL
    /\ result' = <<>>
    /\ calls' = <<>>
    /\ UNCHANGED <<catalog, BackupName, status, stored, artifact>>

NextAgain == Next \/ Reinvoke

SpecAgain == Init /\ [][NextAgain]_vars

----------------------------------------------------------------------------
(* What an invocation did, read from the calls log *)

DeletionOps ==
    {"cleanBackupMetaWithVolSnapshots", "CleanBRRemoteBackupData",
     "cleanRemoteBackupData"}

CallsOf(ops) == SelectSeq(calls, LAMBDA c : c.op \in ops)
DeletionCalls == CallsOf(DeletionOps)
CalcCalls == CallsOf({"CalcVolSnapBackupSize"})
ListCalls == CallsOf({"List"})
UpdateCalls == CallsOf({"Update"})
UpdatesOn(n) == SelectSeq(calls, LAMBDA c : c.op = "Update" /\ c.name = n)
UpdatesNotOn(n) == SelectSeq(calls, LAMBDA c : c.op = "Update" /\ c.name # n)

(* The target was fetched, so performCleanBackup ran or is running. *)
Fetched == backup.name # NIL
Done == pc = "done"
Cleaned == Done /\ Fetched

(* The error of the deletion primitive, NIL when it succeeded or none ran. *)
DeletionError ==
    IF Len(DeletionCalls) = 0 THEN NIL ELSE DeletionCalls[1].err

(* The volume-snapshot records other than the target, by start time. *)
OtherVolumeSnapshots == {n \in Names \ {backup.name} : catalog[n].mode = "VolumeSnapshot"}
LaterVolumeSnapshots ==
    {n \in OtherVolumeSnapshots : catalog[n].ts > catalog[backup.name].ts}
NotEarlierVolumeSnapshots ==
    {n \in OtherVolumeSnapshots : catalog[n].ts >= catalog[backup.name].ts}
(* The later volume-snapshot records of the smallest start time. *)
ChainSuccessors ==
    {n \in LaterVolumeSnapshots :
        \A m \in LaterVolumeSnapshots : catalog[n].ts <= catalog[m].ts}
DistinctTimes == \A n, m \in Names : n # m => catalog[n].ts # catalog[m].ts

VolumeSnapshotTarget == Fetched /\ IsVolumeSnapshot(backup) /\ backup.path # ""

----------------------------------------------------------------------------
(* C1, as claimed: when performCleanBackup returns for a volume-snapshot
   target with a non-empty path and a later volume-snapshot record, the size
   calculator was asked and the successor's recorded size fields are the
   value it returned. *)
C1_RecordedSizeAlways ==
    (Done /\ VolumeSnapshotTarget /\ LaterVolumeSnapshots # {}) =>
        /\ Len(CalcCalls) = 1
        /\ \E n \in ChainSuccessors :
              /\ status[n].size = CalcCalls[1].size
              /\ status[n].readable = HumanizeBytes(CalcCalls[1].size)

(* C1, amended: when performCleanBackup returns for a volume-snapshot target
   with a non-empty path for which the chain lookup returned a successor, the
   calculator was asked once and one status write was issued on the
   successor, carrying a Complete condition and the calculator's value as
   bytes and as readable string, whether the deletion succeeded or failed;
   the successor's recorded size fields are that value when the write
   succeeded and are untouched when it failed. *)
C1_SuccessorWriteCarriesCalculatedSize ==
    (Done /\ VolumeSnapshotTarget /\ nextNackup # NIL) =>
        /\ Len(CalcCalls) = 1
        /\ Len(UpdatesOn(nextNackup)) = 1
        /\ LET w == UpdatesOn(nextNackup)[1]
               v == CalcCalls[1].size
           IN  /\ w.cond = CompleteCondition
               /\ w.upd.size = v
               /\ w.upd.readable = HumanizeBytes(v)
               /\ w.err = NIL =>
                     /\ status[nextNackup].size = v
                     /\ status[nextNackup].readable = HumanizeBytes(v)
               /\ w.err # NIL => status[nextNackup].size = InitSize

(* C1 witness: the deletion failed, and the successor's recorded size is the
   calculator's fresh value. *)
C1_Witness ==
    /\ Done /\ VolumeSnapshotTarget /\ nextNackup # NIL
    /\ DeletionError # NIL
    /\ Len(CalcCalls) = 1
    /\ CalcCalls[1].size = 2 * SizeStep
    /\ status[nextNackup].size = 2 * SizeStep
    /\ status[nextNackup].readable = [whole |-> 1, tenth |-> 0, unit |-> "kB"]

(* C2: for a target with an empty artifact path the invocation never reaches
   the dispatch, makes no deletion, listing or size call, and when it returns
   it has made exactly one status write: Failed/BackupPathIsEmpty on the
   target. *)
C2_EmptyPathOneFailedWrite ==
    (Fetched /\ backup.path = "") =>
        /\ pc \in {"pathCheck", "done"}
        /\ Len(DeletionCalls) = 0 /\ Len(ListCalls) = 0 /\ Len(CalcCalls) = 0
        /\ nextNackup = NIL
        /\ Done =>
              /\ Len(UpdateCalls) = 1
              /\ UpdateCalls[1].name = backup.name
              /\ UpdateCalls[1].cond.type = "Failed"
              /\ UpdateCalls[1].cond.reason = "BackupPathIsEmpty"
              /\ UpdateCalls[1].upd = NoUpdate
              /\ Len(calls) = 2

(* C2 witness: an invocation on an empty path has returned after its write. *)
C2_Witness ==
    /\ Done /\ Fetched /\ backup.path = ""
    /\ Len(UpdateCalls) = 1
    /\ status[backup.name].conds = <<PathEmptyCondition>>

(* C3: when performCleanBackup returns, exactly one condition write was
   issued on the target, as the last call; any other write is a single
   Complete write on another record of the catalog, and it is issued exactly
   when the chain lookup returned a successor, whatever the deletion's
   outcome. *)
C3_OneTargetWrite ==
    Cleaned =>
        /\ Len(UpdatesOn(backup.name)) = 1
        /\ calls[Len(calls)] = UpdatesOn(backup.name)[1]
        /\ UpdatesOn(backup.name)[1].cond.type \in {"Failed", "Clean"}
        /\ Len(UpdatesNotOn(backup.name)) <= 1
        /\ \A i \in DOMAIN UpdatesNotOn(backup.name) :
              /\ UpdatesNotOn(backup.name)[i].name \in Names
              /\ UpdatesNotOn(backup.name)[i].cond = CompleteCondition
        /\ (Len(UpdatesNotOn(backup.name)) = 1) <=> (nextNackup # NIL)

(* C3 witness: the deletion failed, the target got its one Failed write and
   the successor its own write. *)
C3_Witness ==
    /\ Cleaned /\ DeletionError # NIL
    /\ Len(UpdatesOn(backup.name)) = 1
    /\ Len(UpdatesNotOn(backup.name)) = 1

(* C4: when the deletion primitive failed and the status write on the target
   succeeded, the returned error is not nil and holds the deletion error's
   message. *)
C4_CleanupFailureNotMasked ==
    (Cleaned /\ DeletionError # NIL /\ UpdatesOn(backup.name)[1].err = NIL) =>
        /\ ~IsNil(result)
        /\ DeletionError \in Messages(result)

(* C4 witness: a failed deletion followed by a successful target write. *)
C4_Witness ==
    /\ Cleaned /\ DeletionError = "access denied"
    /\ Len(UpdatesOn(backup.name)) = 1
    /\ UpdatesOn(backup.name)[1].err = NIL
    /\ result = <<"access denied">>

(* C5, as claimed: when any status write of the invocation failed, the
   returned error is not nil, and with a failed deletion it holds both
   errors. *)
C5_AnyWriteFailureSurfaced ==
    (Cleaned /\ \E i \in DOMAIN UpdateCalls : UpdateCalls[i].err # NIL) =>
        /\ ~IsNil(result)
        /\ DeletionError # NIL =>
              {DeletionError, UpdateError} \subseteq Messages(result)

(* C5, amended: when the status write on the target failed, the returned
   error is not nil and holds the write's error, and with a failed deletion
   it is the aggregate of both errors; a failed write on the successor alone
   is not returned. *)
C5_TargetWriteFailureSurfaced ==
    /\ (Cleaned /\ UpdatesOn(backup.name)[1].err # NIL) =>
          /\ ~IsNil(result)
          /\ UpdatesOn(backup.name)[1].err \in Messages(result)
          /\ DeletionError # NIL =>
                result = <<DeletionError, UpdatesOn(backup.name)[1].err>>
    /\ (Cleaned /\ UpdatesOn(backup.name)[1].err = NIL /\ DeletionError = NIL) =>
          IsNil(result)

(* C5 witness: the deletion and the target write both failed. *)
C5_Witness ==
    /\ Cleaned /\ DeletionError = "not found"
    /\ UpdatesOn(backup.name)[1].err = UpdateError
    /\ result = <<"not found", UpdateError>>

(* C6: the returned value and the condition written on the target are
   fixed by the deletion's outcome and the target write's outcome alone: the
   same whether the successor's write succeeded, failed or never happened. *)
C6_SuccessorWriteIsolated ==
    (Cleaned /\ backup.path # "") =>
        LET d == DeletionError
            w == UpdatesOn(backup.name)[1]
            u == IF w.err = NIL THEN <<>> ELSE <<w.err>>
        IN  /\ Len(DeletionCalls) = 1
            /\ d = NIL =>
                  /\ w.cond = [type |-> "Clean", reason |-> "", message |-> ""]
                  /\ result = u
            /\ d # NIL =>
                  /\ w.cond = [type |-> "Failed", reason |-> "CleanBackupDataFailed",
                               message |-> d]
                  /\ result = <<d>> \o u

(* C6 witness: the successor's write failed, the deletion and the target
   write succeeded, and nil is returned with a Clean condition recorded. *)
C6_Witness ==
    /\ Cleaned /\ nextNackup # NIL
    /\ UpdatesOn(nextNackup)[1].err = UpdateError
    /\ DeletionError = NIL
    /\ status[backup.name].conds = <<CleanCondition>>
    /\ IsNil(result)

(* C7, as claimed: for a volume-snapshot target with no volume-snapshot
   record of a later start time, no size is calculated and no record other
   than the target is written. *)
C7_NoLaterNoSuccessorWrite ==
    (Done /\ VolumeSnapshotTarget /\ LaterVolumeSnapshots = {}) =>
        /\ Len(CalcCalls) = 0
        /\ Len(UpdatesNotOn(backup.name)) = 0

(* C7, amended: for a volume-snapshot target with no other volume-snapshot
   record of a later or equal start time, the lookup returns none, no size is
   calculated and no record other than the target is written; and the
   missing successor is no error: a successful deletion is reported Clean and
   the target write's result is returned. *)
C7_NoLaterOrEqualNoSuccessorWrite ==
    (VolumeSnapshotTarget /\ NotEarlierVolumeSnapshots = {}) =>
        /\ nextNackup = NIL
        /\ Len(CalcCalls) = 0
        /\ Len(UpdatesNotOn(backup.name)) = 0
        /\ (Done /\ DeletionError = NIL) =>
              /\ UpdatesOn(backup.name)[1].cond = CleanCondition
              /\ result = AsResult(UpdatesOn(backup.name)[1].err)

(* C7 witness: the last volume-snapshot record of a chain that has an
   earlier member was listed and cleaned, with nil returned. *)
C7_Witness ==
    /\ Done /\ VolumeSnapshotTarget /\ NotEarlierVolumeSnapshots = {}
    /\ OtherVolumeSnapshots # {}
    /\ Len(ListCalls) = 1 /\ ListCalls[1].err = NIL
    /\ DeletionError = NIL
    /\ Len(UpdateCalls) = 1
    /\ IsNil(result)

(* The lister returned every record of the namespace, and getNextBackup has
   just returned. *)
LookedUp == pc = "cleanVolSnapshots" /\ Len(bks) = Cardinality(Names)

(* C8: with pairwise distinct start times, whatever the order the lister
   returned the records in, the successor is the volume-snapshot record of
   the smallest start time greater than the target's, and none when there is
   no such record. *)
C8_OrderedByStartTime ==
    (LookedUp /\ DistinctTimes) =>
        /\ LaterVolumeSnapshots # {} => nextNackup \in ChainSuccessors
        /\ LaterVolumeSnapshots = {} => nextNackup = NIL

(* C8 witness: listed as [C(t=3), A(t=1), B(t=2)], all volume-snapshot, the
   successor of A is B. *)
C8_Witness ==
    /\ LookedUp
    /\ bks = <<"C", "A", "B">>
    /\ catalog = [n \in Names |->
                    [mode |-> "VolumeSnapshot",
                     ts |-> CASE n = "A" -> 1 [] n = "B" -> 2 [] OTHER -> 3]]
    /\ backup.name = "A"
    /\ nextNackup = "B"

(* C9: a successor is always a volume-snapshot record, not of an earlier
   start time than the target, with no volume-snapshot record strictly
   between the two in start time, however many Normal records lie between;
   and when every record was listed and no successor is returned, no
   volume-snapshot record has a later start time. *)
C9_SkipsNormalRecords ==
    /\ nextNackup # NIL =>
          /\ catalog[nextNackup].mode = "VolumeSnapshot"
          /\ catalog[nextNackup].ts >= catalog[backup.name].ts
          /\ \A n \in OtherVolumeSnapshots :
                ~(/\ catalog[backup.name].ts < catalog[n].ts
                  /\ catalog[n].ts < catalog[nextNackup].ts)
    /\ (LookedUp /\ nextNackup = NIL) => LaterVolumeSnapshots = {}

(* C9 witness: A(t=1, VolumeSnapshot), B(t=2, Normal), C(t=3,
   VolumeSnapshot): the successor of A is C. *)
C9_Witness ==
    /\ LookedUp
    /\ catalog = [n \in Names |->
                    CASE n = "A" -> [mode |-> "VolumeSnapshot", ts |-> 1]
                      [] n = "B" -> [mode |-> "Normal", ts |-> 2]
                      [] OTHER   -> [mode |-> "VolumeSnapshot", ts |-> 3]]
    /\ backup.name = "A"
    /\ nextNackup = "C"

(* C10: for a target with a non-empty artifact path exactly one deletion
   primitive is invoked: the volume-snapshot primitive exactly for a
   volume-snapshot target; otherwise the dedicated-tool primitive exactly
   when the tool descriptor is present, and else the generic primitive, on
   the stored artifact path. *)
C10_OneDeletionPrimitive ==
    (Cleaned /\ backup.path # "") =>
        /\ Len(DeletionCalls) = 1
        /\ (DeletionCalls[1].op = "cleanBackupMetaWithVolSnapshots")
              <=> (backup.mode = "VolumeSnapshot")
        /\ backup.mode # "VolumeSnapshot" =>
              /\ (DeletionCalls[1].op = "CleanBRRemoteBackupData") <=> backup.br
              /\ (DeletionCalls[1].op = "cleanRemoteBackupData") <=> ~backup.br
              /\ ~backup.br => DeletionCalls[1].name = backup.path
              /\ Len(ListCalls) = 0 /\ Len(CalcCalls) = 0

(* C10 witness: a Normal target with a tool descriptor was cleaned with the
   dedicated-tool primitive. *)
C10_Witness ==
    /\ Cleaned /\ backup.path # "" /\ backup.mode = "Normal" /\ backup.br
    /\ Len(DeletionCalls) = 1
    /\ DeletionCalls[1].op = "CleanBRRemoteBackupData"


(* C11: when Get does not find the target, ProcessCleanBackup returns a
   non-nil error right away: the Get is the only call made, so there is no
   status write, no deletion call and no listing, and no record's status has
   changed. *)
C11_LookupFailureReturned ==
    (Done /\ ~Fetched) =>
        /\ ~IsNil(result)
        /\ result = <<LookupError>>
        /\ Len(calls) = 1 /\ calls[1].op = "Get" /\ calls[1].err # NIL
        /\ Len(UpdateCalls) = 0 /\ Len(DeletionCalls) = 0 /\ Len(ListCalls) = 0
        /\ \A n \in Names : status[n].conds = <<>> /\ status[n].size = InitSize

(* C11 witness: an invocation on a name the lister does not hold has
   returned. *)
C11_Witness ==
    /\ Done /\ BackupName = Unknown
    /\ result = <<LookupError>>
    /\ Len(calls) = 1


(* C12: a second invocation on a record that already carries a Clean
   condition and whose artifact is removed runs to its end like any failed
   cleanup: it is never stuck before it returns, its one deletion call fails
   with artifact-not-found, a Failed/CleanBackupDataFailed condition with
   that message is written on the target, the Clean condition stays in the
   record, and a non-nil aggregate holding the deletion error is returned. *)
C12_SecondCleanupIsOrdinaryFailure ==
    runs >= 2 =>
        /\ ~Done => ENABLED Next
        /\ Done =>
              /\ Fetched
              /\ Len(DeletionCalls) = 1
              /\ DeletionError = "not found"
              /\ Len(UpdatesOn(backup.name)) = 1
              /\ UpdatesOn(backup.name)[1].cond =
                    [type |-> "Failed", reason |-> "CleanBackupDataFailed",
                     message |-> "not found"]
              /\ ~IsNil(result)
              /\ result[1] = "not found"
              /\ AlreadyClean
              /\ UpdatesOn(backup.name)[1].err = NIL =>
                    status[backup.name].conds[Len(status[backup.name].conds)]
                        = FailedCondition("not found")

(* C12 witness: the second invocation has returned, with the Clean condition
   of the first and the Failed condition of the second in the record. *)
C12_Witness ==
    /\ runs = 2 /\ Cleaned
    /\ status[backup.name].conds = <<CleanCondition, FailedCondition("not found")>>
    /\ result = <<"not found">>


(* The operations of the calls made so far, in order. *)
Ops == [i \in DOMAIN calls |-> calls[i].op]
IsPrefix(s, t) == Len(s) <= Len(t) /\ s = SubSeq(t, 1, Len(s))

(* The calls of a whole invocation on the volume-snapshot path. *)
VolumeSnapshotOrder ==
    <<"Get", "List", "cleanBackupMetaWithVolSnapshots">>
    \o (IF nextNackup # NIL THEN <<"CalcVolSnapBackupSize", "Update">> ELSE <<>>)
    \o <<"Update">>

(* C13: on the volume-snapshot path the calls come in one order: the catalog
   listing, then the deletion primitive, then (with a successor) the size
   calculation and the successor's status write, and last the write of the
   target's condition. *)
C13_VolumeSnapshotPathOrder ==
    VolumeSnapshotTarget =>
        /\ IsPrefix(Ops, VolumeSnapshotOrder)
        /\ Done =>
              /\ Ops = VolumeSnapshotOrder
              /\ calls[Len(calls)].name = backup.name
              /\ nextNackup # NIL => calls[5].name = nextNackup
        /\ pc \in {"updateNext", "report"} => Len(DeletionCalls) = 1

(* C13 witness: a whole run with a successor: list, delete, calculate, write
   the successor, write the target. *)
C13_Witness ==
    /\ Done /\ VolumeSnapshotTarget /\ nextNackup # NIL
    /\ Ops = <<"Get", "List", "cleanBackupMetaWithVolSnapshots",
               "CalcVolSnapBackupSize", "Update", "Update">>


(* The chain lookup of this invocation failed: the listing returned an error,
   or it did not hold the target (it returned fewer records than the
   namespace has). *)
ChainLookupFailed ==
    /\ Len(ListCalls) = 1
    /\ \/ ListCalls[1].err # NIL
       \/ ListCalls[1].size < Cardinality(Names)

(* C14: when the catalog listing fails or does not hold the target, the
   lookup returns none, no size is calculated and no other record written,
   the target's deletion primitive is still invoked, and the condition
   written on the target and the returned value are those of the deletion's
   outcome and the target write alone. *)
C14_ChainLookupFailureIsSoft ==
    (VolumeSnapshotTarget /\ ChainLookupFailed) =>
        /\ nextNackup = NIL
        /\ pc \in {"cleanVolSnapshots", "report", "done"}
        /\ Len(CalcCalls) = 0
        /\ Len(UpdatesNotOn(backup.name)) = 0
        /\ pc \in {"report", "done"} =>
              /\ Len(DeletionCalls) = 1
              /\ DeletionCalls[1].op = "cleanBackupMetaWithVolSnapshots"
              /\ err = DeletionError
        /\ Done =>
              LET w == UpdatesOn(backup.name)[1]
              IN  /\ w.cond = IF DeletionError = NIL THEN CleanCondition
                              ELSE FailedCondition(DeletionError)
                  /\ Messages(result) = {DeletionError, w.err} \ {NIL}
                  /\ ListError \notin Messages(result)

(* C14 witness: the listing failed, a later volume-snapshot record exists,
   and the target was deleted and reported Clean with nil returned. *)
C14_Witness ==
    /\ Done /\ VolumeSnapshotTarget /\ LaterVolumeSnapshots # {}
    /\ Len(ListCalls) = 1 /\ ListCalls[1].err = ListError
    /\ artifact = "removed"
    /\ status[backup.name].conds = <<CleanCondition>>
    /\ IsNil(result)

(* C14 second case reached: the listing succeeded without the target. *)
C14_TargetNotListed ==
    /\ Done /\ VolumeSnapshotTarget /\ LaterVolumeSnapshots # {}
    /\ Len(ListCalls) = 1 /\ ListCalls[1].err = NIL
    /\ ListCalls[1].size < Cardinality(Names)


(* C15: when the deletion primitive failed, the one condition written on the
   target is Failed with reason CleanBackupDataFailed and the deletion
   error's message as its message, and no Clean condition is written by the
   invocation. *)
C15_FailedConditionCarriesMessage ==
    (Cleaned /\ DeletionError # NIL) =>
        LET w == UpdatesOn(backup.name)[1]
        IN  /\ w.cond.type = "Failed"
            /\ w.cond.reason = "CleanBackupDataFailed"
            /\ w.cond.message = DeletionError
            /\ \A i \in DOMAIN UpdateCalls : UpdateCalls[i].cond.type # "Clean"
            /\ \A i \in DOMAIN status[backup.name].conds :
                  status[backup.name].conds[i].type # "Clean"
            /\ w.err = NIL =>
                  status[backup.name].conds =
                      <<[type |-> "Failed", reason |-> "CleanBackupDataFailed",
                         message |-> DeletionError]>>

(* C15 witness: the generic primitive failed with "access denied" and the
   record carries that message. *)
C15_Witness ==
    /\ Cleaned
    /\ Len(DeletionCalls) = 1
    /\ DeletionCalls[1].op = "cleanRemoteBackupData"
    /\ DeletionCalls[1].err = "access denied"
    /\ status[backup.name].conds =
          <<[type |-> "Failed", reason |-> "CleanBackupDataFailed",
             message |-> "access denied"]>>

(* C16: when the path is not empty and the deletion primitive succeeded, the
   condition written on the target is Clean with an empty message and the
   returned value is the result of that write, nil exactly when it
   succeeded; and a Clean condition is written exactly when a deletion
   primitive ran and returned no error. *)
C16_CleanOnSuccess ==
    Cleaned =>
        /\ (backup.path # "" /\ DeletionError = NIL) =>
              LET w == UpdatesOn(backup.name)[1]
              IN  /\ w.cond.type = "Clean"
                  /\ w.cond.message = ""
                  /\ w.upd = NoUpdate
                  /\ IsNil(result) <=> (w.err = NIL)
                  /\ w.err # NIL => result = <<w.err>>
        /\ (\E i \in DOMAIN UpdateCalls : UpdateCalls[i].cond.type = "Clean")
              <=> (Len(DeletionCalls) = 1 /\ DeletionCalls[1].err = NIL)

(* C16 witness: the deletion succeeded and the Clean write failed, so the
   write's error is what is returned. *)
C16_Witness ==
    /\ Cleaned /\ backup.path # ""
    /\ Len(DeletionCalls) = 1 /\ DeletionError = NIL
    /\ UpdatesOn(backup.name)[1].cond = CleanCondition
    /\ UpdatesOn(backup.name)[1].err = UpdateError
    /\ result = <<UpdateError>>

(* The operations an invocation calls. *)
KnownOps ==
    DeletionOps \cup {"Get", "List", "CalcVolSnapBackupSize", "Update"}

(* What C17 says of every state. *)
C17_Writes ==
    /\ Len(UpdateCalls) <= 2
    /\ Len(UpdatesOn(backup.name)) <= 1
    /\ Len(UpdatesNotOn(backup.name)) <= 1
    /\ \A i \in DOMAIN calls : calls[i].op \in KnownOps
    /\ Len(UpdatesNotOn(backup.name)) = 1 =>
          /\ backup.mode = "VolumeSnapshot"
          /\ UpdatesNotOn(backup.name)[1].name = nextNackup
    /\ (Fetched /\ backup.mode # "VolumeSnapshot") =>
          /\ Len(ListCalls) = 0 /\ Len(CalcCalls) = 0
          /\ Len(UpdatesNotOn(backup.name)) = 0
          /\ \A n \in Names \ {backup.name} :
                status[n].conds = <<>> /\ status[n].size = InitSize
    /\ DOMAIN status = Names

(* C17: an invocation issues at most two status writes, at most one on the
   target and at most one on one other record, the successor, and that only
   for a volume-snapshot target; for any other target no other record is
   written and the catalog is not listed; and no step removes a record: the
   catalog and the set of records with a status never change. *)
C17_AtMostTwoWrites ==
    /\ []C17_Writes
    /\ [][catalog' = catalog /\ DOMAIN status' = DOMAIN status]_vars

(* C17 witness: two writes were issued, one on the successor and one on the
   target. *)
C17_Witness ==
    /\ Cleaned
    /\ Len(UpdateCalls) = 2
    /\ UpdateCalls[1].name = nextNackup
    /\ UpdateCalls[2].name = backup.name


(* C18: a size calculation that returned an error is still followed by the
   status write on the successor, with a Complete condition and the size the
   calculator returned beside the error, as bytes and as readable string;
   when that write succeeds the record holds that size. *)
C18_CalcErrorStillWrites ==
    \A i \in DOMAIN calls :
        (calls[i].op = "CalcVolSnapBackupSize" /\ calls[i].err # NIL) =>
            /\ i + 1 \in DOMAIN calls
            /\ calls[i + 1].op = "Update"
            /\ calls[i + 1].name = nextNackup
            /\ calls[i + 1].cond.type = "Complete"
            /\ calls[i + 1].upd.size = calls[i].size
            /\ calls[i + 1].upd.readable = HumanizeBytes(calls[i].size)
            /\ calls[i + 1].err = NIL => status[nextNackup].size = calls[i].size

(* C18 witness: the calculator failed and returned zero, and the successor's
   record now reads zero bytes with a Complete condition. *)
C18_Witness ==
    /\ Done /\ nextNackup # NIL
    /\ Len(CalcCalls) = 1
    /\ CalcCalls[1].err = CalcError /\ CalcCalls[1].size = 0
    /\ status[nextNackup].size = 0
    /\ status[nextNackup].readable = [whole |-> 0, tenth |-> -1, unit |-> "B"]
    /\ status[nextNackup].conds = <<CompleteCondition>>


(* The place of a position in performCleanBackup's text. *)
Rank(p) ==
    CASE p = "start" -> 0
      [] p = "pathCheck" -> 1
      [] p = "getNextBackup" -> 2
      [] p = "cleanVolSnapshots" -> 3
      [] p = "cleanRemote" -> 3
      [] p = "updateNext" -> 4
      [] p = "report" -> 5
      [] OTHER -> 6

(* What C19 says of every state: no deletion primitive is called twice, and
   once the target's condition is written the invocation has returned. *)
C19_NoRetry ==
    /\ Len(DeletionCalls) <= 1
    /\ Len(UpdatesOn(backup.name)) <= 1
    /\ (Fetched /\ Len(UpdatesOn(backup.name)) = 1) => Done
    /\ Cleaned => Len(UpdatesOn(backup.name)) = 1

(* C19: with every external call returning, every invocation returns; every
   step moves forward in performCleanBackup's text, so none is taken twice
   and none after the return; each deletion primitive is called at most once,
   also when it fails; and the target's condition is written once, as the
   last thing before the return. *)
C19_TerminatesOnce ==
    /\ <>Done
    /\ []C19_NoRetry
    /\ [][Rank(pc') > Rank(pc)]_vars

(* C19 witness: the deletion failed, was not tried again, and the invocation
   returned after its one Failed write. *)
C19_Witness ==
    /\ Cleaned /\ DeletionError # NIL
    /\ Len(DeletionCalls) = 1
    /\ Len(UpdatesOn(backup.name)) = 1
    /\ ~ENABLED Next


(* C20: for every catalog and listing order, equal start times included, a
   successor returned by getNextBackup is a volume-snapshot record of the
   namespace, is not the target and does not start earlier than the target;
   so every write that carries size fields goes to such a record, never to
   the record being cleaned or to an earlier chain member. *)
C20_SuccessorIsLaterVolumeSnapshot ==
    /\ nextNackup # NIL => nextNackup \in NotEarlierVolumeSnapshots
    /\ \A i \in DOMAIN UpdateCalls :
          UpdateCalls[i].upd # NoUpdate =>
              /\ UpdateCalls[i].name \in Names \ {backup.name}
              /\ catalog[UpdateCalls[i].name].mode = "VolumeSnapshot"
              /\ catalog[UpdateCalls[i].name].ts >= catalog[backup.name].ts
    /\ Fetched => status[backup.name].size = InitSize

(* C20 witness: an earlier volume-snapshot record exists and another one
   starts at the target's own time; the latter was returned and its size
   rewritten. *)
C20_Witness ==
    /\ Done /\ VolumeSnapshotTarget /\ nextNackup # NIL
    /\ catalog[nextNackup].ts = catalog[backup.name].ts
    /\ \E n \in OtherVolumeSnapshots : catalog[n].ts < catalog[backup.name].ts
    /\ status[nextNackup].size # InitSize

====
